---- MODULE Spec2Model ----
(***************************************************************************)
(* Decoder resolution and lifecycle of SFB::Audio::Decoder                 *)
(* (Decoders/AudioDecoder.cpp).                                            *)
(*                                                                         *)
(* One behaviour is one call of CreateDecoderForInputSource on one         *)
(* InputSource, followed by the caller driving the returned decoder.       *)
(* The call is split at its reads of the atomic flag                       *)
(* sAutomaticallyOpenDecoders, which another thread may store to at any    *)
(* time, and at the transfers of the InputSource unique_ptr.  The plugin   *)
(* hooks (_Open, _Close, _ReadAudio, ...) and the InputSource are          *)
(* collaborators: their results are inputs of the actions.                 *)
(***************************************************************************)
EXTENDS Integers, Sequences, FiniteSets, TLC

\* Number of registered subclasses (length of sRegisteredSubclasses).
NumPlugins == 2
\* Largest frame number / frame count / hook result the caller and hooks use.
MaxFrame == 2
\* Longest stream of a decoder wrapped in a region, largest repeat count.
MaxInnerFrames == 3
MaxRepeat == 2

NULL == "nullptr"
\* The one InputSource object of a behaviour.
SRC == "inputSource"

\* MIME types and path extensions a registered subclass may handle.
PluginMIMETypes == {"audio/a"}
PluginExtensions == {"a"}
\* MIME types a caller may pass (nullptr, a handled one, one nobody handles).
CallerMIMETypes == {NULL, "audio/a", "audio/b"}
\* Extensions a caller may ask the registry about.
CallerExtensions == {NULL, "a", "b"}
\* URLs an InputSource may have: none, without extension, with extension.
URLs == {NULL, "file", "file.a", "file.b"}

\* CFErrorRef values seen by the caller.
NoError == "unset"
InputSourceError == "InputSourceError"
DecoderError == "DecoderOpenError"
UnknownFileTypeError == "UnknownFileType"

VARIABLES
    sRegisteredSubclasses,      \* sequence of SubclassInfo
    sAutomaticallyOpenDecoders, \* the process-wide atomic flag
    source,                     \* the InputSource: [isOpen, url]
    pc,                         \* position of the resolve call / its caller
    inputSource,                \* the resolver's unique_ptr: NULL or SRC
    mimeType,                   \* argument of the call
    errPtr,                     \* TRUE iff the caller passed error != nullptr
    error,                      \* the caller's CFErrorRef
    idx,                        \* position of the range-for over the registry
    decoders,                   \* every Decoder constructed so far, in order
    flagReads,                  \* values AutomaticallyOpenDecoders() returned in the call
    last,                       \* the operation in progress or just finished
    region                      \* the LoopableRegionDecoder around the decoder, if any

vars == <<sRegisteredSubclasses, sAutomaticallyOpenDecoders, source, pc,
          inputSource, mimeType, errPtr, error, idx, decoders, flagReads, last,
          region>>

\* No region decoder: the fields of a LoopableRegionDecoder, all clear.
\* innerTotal and innerPos are the length and the read position of the
\* wrapped decoder's stream; args, lastReq and lastGot record the caller's
\* arguments and the last ReadAudio.
NoRegion ==
    [state |-> "none", args |-> <<0, 0, 0>>,
     mStartingFrame |-> 0, mFrameCount |-> 0, mRepeatCount |-> 0,
     isOpen |-> FALSE, innerTotal |-> 0, innerPos |-> 0,
     framesReadInPass |-> 0, repeatsLeft |-> 0, totalRead |-> 0,
     lastReq |-> 0, lastGot |-> 0]

SubclassInfo == [mimes : SUBSET PluginMIMETypes, exts : SUBSET PluginExtensions]

B2I(b) == IF b THEN 1 ELSE 0

\* A subclass that claims every MIME type it is asked about.
mHandlesMIMEType_AnyType(info, mime) == mime /= NULL

\* A subclass whose extension test never matches.
mHandlesFilesWithExtension_Never(info, ext) == FALSE

\* subclassInfo.mHandlesMIMEType / mHandlesFilesWithExtension
mHandlesMIMEType(info, mime) == mime /= NULL /\ mime \in info.mimes
mHandlesFilesWithExtension(info, ext) == ext /= NULL /\ ext \in info.exts

\* CFURLCopyPathExtension
CFURLCopyPathExtension(url) ==
    CASE url = "file.a" -> "a"
      [] url = "file.b" -> "b"
      [] OTHER -> NULL

NoCall == [op |-> "none", arg |-> 0, str |-> NULL, buf |-> FALSE, preIsOpen |-> FALSE,
           preSrcOpen |-> FALSE, retBool |-> FALSE, retInt |-> 0, calls |-> <<>>]

Init ==
    /\ sRegisteredSubclasses \in [1..NumPlugins -> SubclassInfo]
    /\ sAutomaticallyOpenDecoders = FALSE
    /\ source \in [isOpen : BOOLEAN, url : URLs]
    /\ pc = "idle"
    /\ inputSource = NULL
    /\ mimeType = NULL
    /\ errPtr = FALSE
    /\ error = NoError
    /\ idx = 0
    /\ decoders = <<>>
    /\ flagReads = {}
    /\ last = NoCall
    /\ region = NoRegion

\* Decoder::SetAutomaticallyOpenDecoders, from any thread at any time.
SetAutomaticallyOpenDecoders(flag) ==
    /\ sAutomaticallyOpenDecoders /= flag
    /\ sAutomaticallyOpenDecoders' = flag
    /\ UNCHANGED <<region, sRegisteredSubclasses, source, pc, inputSource, mimeType,
                   errPtr, error, idx, decoders, flagReads, last>>

\* for(auto subclassInfo : sRegisteredSubclasses) if(handles) return true;
\* return false: the loop of the two registry queries from subclass i on.
\* handles[p] is the test of subclass p, fn its name.
RECURSIVE RegistryScan(_, _, _, _)
RegistryScan(handles, fn, i, calls) ==
    IF i > Len(sRegisteredSubclasses)
    THEN [ret |-> FALSE, calls |-> calls]
    ELSE IF handles[i]
         THEN [ret |-> TRUE, calls |-> Append(calls, <<fn, i>>)]
         ELSE RegistryScan(handles, fn, i + 1, Append(calls, <<fn, i>>))

\* HandlesMIMEType that asks every subclass before it answers.
DecoderHandlesMIMEType_ScanAll(mimeArg) ==
    IF mimeArg = NULL THEN [ret |-> FALSE, calls |-> <<>>]
    ELSE [ret |-> \E p \in DOMAIN sRegisteredSubclasses :
                     mHandlesMIMEType(sRegisteredSubclasses[p], mimeArg),
          calls |-> [p \in DOMAIN sRegisteredSubclasses |-> <<"mHandlesMIMEType", p>>]]

\* Decoder::HandlesMIMEType
DecoderHandlesMIMEType(mimeArg) ==
    IF mimeArg = NULL THEN [ret |-> FALSE, calls |-> <<>>]
    ELSE RegistryScan([p \in DOMAIN sRegisteredSubclasses |->
                          mHandlesMIMEType(sRegisteredSubclasses[p], mimeArg)],
                      "mHandlesMIMEType", 1, <<>>)

\* Decoder::HandlesFilesWithExtension
DecoderHandlesFilesWithExtension(extension) ==
    IF extension = NULL THEN [ret |-> FALSE, calls |-> <<>>]
    ELSE RegistryScan([p \in DOMAIN sRegisteredSubclasses |->
                          mHandlesFilesWithExtension(sRegisteredSubclasses[p], extension)],
                      "mHandlesFilesWithExtension", 1, <<>>)

\* A registry query made before the call of CreateDecoderForInputSource.
RegistryQuery(op, arg, r) ==
    /\ pc = "idle"
    /\ last' = [NoCall EXCEPT !.op = op, !.str = arg, !.retBool = r.ret, !.calls = r.calls]
    /\ UNCHANGED <<region, sRegisteredSubclasses, sAutomaticallyOpenDecoders, source, pc,
                   inputSource, mimeType, errPtr, error, idx, decoders, flagReads>>

HandlesMIMEType(mimeArg) ==
    RegistryQuery("HandlesMIMEType", mimeArg, DecoderHandlesMIMEType(mimeArg))

HandlesFilesWithExtension(extension) ==
    RegistryQuery("HandlesFilesWithExtension", extension,
                  DecoderHandlesFilesWithExtension(extension))

\* A Decoder as constructed by subclassInfo.mCreateDecoder(std::move(inputSource)):
\* Decoder::Decoder(InputSource::unique_ptr) takes the pointer and starts closed.
\* phase, givenSource and givenOpen record how the object came to be,
\* closedOnce that it has been opened and then closed with success.
NewDecoder(plugin, phase, given, srcIsOpen) ==
    [plugin |-> plugin, mIsOpen |-> FALSE, mInputSource |-> given, live |-> TRUE,
     phase |-> phase, givenSource |-> given, givenOpen |-> srcIsOpen,
     closedOnce |-> FALSE]

\* Open without the early return on a decoder that is already open.
DecoderOpen_NoGuard(mIsOpen, srcIsOpen, err, canErr, srcOk, hookOk, setsErr) ==
    IF ~srcIsOpen /\ ~srcOk
    THEN [ret |-> FALSE, mIsOpen |-> mIsOpen, srcIsOpen |-> FALSE,
          error |-> IF canErr /\ setsErr THEN InputSourceError ELSE err,
          calls |-> << <<"InputSource::Open", 0>> >>]
    ELSE [ret |-> hookOk, mIsOpen |-> mIsOpen \/ hookOk, srcIsOpen |-> TRUE,
          error |-> IF ~hookOk /\ canErr /\ setsErr THEN DecoderError ELSE err,
          calls |-> (IF srcIsOpen THEN <<>> ELSE << <<"InputSource::Open", 1>> >>)
                    \o << <<"_Open", B2I(hookOk)>> >>]

\* Open that marks the decoder open whatever _Open returned.
DecoderOpen_AlwaysOpen(mIsOpen, srcIsOpen, err, canErr, srcOk, hookOk, setsErr) ==
    IF mIsOpen
    THEN [ret |-> TRUE, mIsOpen |-> TRUE, srcIsOpen |-> srcIsOpen, error |-> err,
          calls |-> <<>>]
    ELSE IF ~srcIsOpen /\ ~srcOk
    THEN [ret |-> FALSE, mIsOpen |-> FALSE, srcIsOpen |-> FALSE,
          error |-> IF canErr /\ setsErr THEN InputSourceError ELSE err,
          calls |-> << <<"InputSource::Open", 0>> >>]
    ELSE [ret |-> hookOk, mIsOpen |-> TRUE, srcIsOpen |-> TRUE,
          error |-> IF ~hookOk /\ canErr /\ setsErr THEN DecoderError ELSE err,
          calls |-> (IF srcIsOpen THEN <<>> ELSE << <<"InputSource::Open", 1>> >>)
                    \o << <<"_Open", B2I(hookOk)>> >>]

\* Open that goes to the hook without making sure the source is open.
DecoderOpen_SkipSource(mIsOpen, srcIsOpen, err, canErr, srcOk, hookOk, setsErr) ==
    IF mIsOpen
    THEN [ret |-> TRUE, mIsOpen |-> TRUE, srcIsOpen |-> srcIsOpen, error |-> err,
          calls |-> <<>>]
    ELSE [ret |-> hookOk, mIsOpen |-> hookOk, srcIsOpen |-> srcIsOpen,
          error |-> IF ~hookOk /\ canErr /\ setsErr THEN DecoderError ELSE err,
          calls |-> << <<"_Open", B2I(hookOk)>> >>]

\* Decoder::Open.  srcOk: result of InputSource::Open if it is called;
\* hookOk: result of _Open if it is called; setsErr: the failing callee
\* stores a CFError through a non-null error pointer.
DecoderOpen(mIsOpen, srcIsOpen, err, canErr, srcOk, hookOk, setsErr) ==
    IF mIsOpen
    THEN [ret |-> TRUE, mIsOpen |-> TRUE, srcIsOpen |-> srcIsOpen, error |-> err,
          calls |-> <<>>]
    ELSE IF ~srcIsOpen /\ ~srcOk
    THEN [ret |-> FALSE, mIsOpen |-> FALSE, srcIsOpen |-> FALSE,
          error |-> IF canErr /\ setsErr THEN InputSourceError ELSE err,
          calls |-> << <<"InputSource::Open", 0>> >>]
    ELSE [ret |-> hookOk, mIsOpen |-> hookOk, srcIsOpen |-> TRUE,
          error |-> IF ~hookOk /\ canErr /\ setsErr THEN DecoderError ELSE err,
          calls |-> (IF srcIsOpen THEN <<>> ELSE << <<"InputSource::Open", 1>> >>)
                    \o << <<"_Open", B2I(hookOk)>> >>]

\* Close whose result forgets the closing of the input source.
DecoderClose_IgnoreSource(mIsOpen, srcIsOpen, err, canErr, hookOk, srcOk, setsErr) ==
    IF ~mIsOpen
    THEN [ret |-> TRUE, mIsOpen |-> FALSE, srcIsOpen |-> srcIsOpen, error |-> err,
          calls |-> <<>>]
    ELSE [ret |-> hookOk,
          mIsOpen |-> IF hookOk THEN FALSE ELSE mIsOpen,
          srcIsOpen |-> IF srcOk THEN FALSE ELSE srcIsOpen,
          error |-> IF canErr /\ setsErr /\ ~srcOk THEN InputSourceError
                    ELSE IF canErr /\ setsErr /\ ~hookOk THEN DecoderError
                    ELSE err,
          calls |-> << <<"_Close", B2I(hookOk)>>, <<"InputSource::Close", B2I(srcOk)>> >>]

\* Close that returns as soon as _Close fails, leaving the source open.
DecoderClose_EarlyReturn(mIsOpen, srcIsOpen, err, canErr, hookOk, srcOk, setsErr) ==
    IF ~mIsOpen
    THEN [ret |-> TRUE, mIsOpen |-> FALSE, srcIsOpen |-> srcIsOpen, error |-> err,
          calls |-> <<>>]
    ELSE IF ~hookOk
    THEN [ret |-> FALSE, mIsOpen |-> mIsOpen, srcIsOpen |-> srcIsOpen,
          error |-> IF canErr /\ setsErr THEN DecoderError ELSE err,
          calls |-> << <<"_Close", 0>> >>]
    ELSE [ret |-> srcOk, mIsOpen |-> FALSE,
          srcIsOpen |-> IF srcOk THEN FALSE ELSE srcIsOpen,
          error |-> IF canErr /\ setsErr /\ ~srcOk THEN InputSourceError ELSE err,
          calls |-> << <<"_Close", 1>>, <<"InputSource::Close", B2I(srcOk)>> >>]

\* Decoder::Close.  hookOk: result of _Close; srcOk: result of
\* InputSource::Close (a failing close leaves the source as it was).
DecoderClose(mIsOpen, srcIsOpen, err, canErr, hookOk, srcOk, setsErr) ==
    IF ~mIsOpen
    THEN [ret |-> TRUE, mIsOpen |-> FALSE, srcIsOpen |-> srcIsOpen, error |-> err,
          calls |-> <<>>]
    ELSE [ret |-> IF ~srcOk THEN FALSE ELSE hookOk,
          mIsOpen |-> IF hookOk THEN FALSE ELSE mIsOpen,
          srcIsOpen |-> IF srcOk THEN FALSE ELSE srcIsOpen,
          error |-> IF canErr /\ setsErr /\ ~srcOk THEN InputSourceError
                    ELSE IF canErr /\ setsErr /\ ~hookOk THEN DecoderError
                    ELSE err,
          calls |-> << <<"_Close", B2I(hookOk)>>, <<"InputSource::Close", B2I(srcOk)>> >>]

\* The Decoder the current loop iteration constructed / the caller holds.
Cur == Len(decoders)

Logged(c) == [last EXCEPT !.calls = @ \o c]
Returned(c, k) == [last EXCEPT !.calls = @ \o c, !.retInt = k]

\* if(mimeType): the MIME loop runs first when a MIME type was passed,
\* otherwise the call goes straight to the extension.
AfterBegin_IgnoreMIME(mime) == "ext"

AfterBegin(mime) == IF mime /= NULL THEN "mimeScan" ELSE "ext"

\* The entry never opens the input source.
MustOpenSource_Never(flag, srcIsOpen) == FALSE

\* AutomaticallyOpenDecoders() && !inputSource->IsOpen(): the entry opens
\* the input source itself.
MustOpenSource(flag, srcIsOpen) == flag /\ ~srcIsOpen

\* CreateDecoderForInputSource, entry: null check, then open the input
\* source if the flag is set and it is not open yet.
Resolve_Begin(src, mime, ep, srcOk, setsErr) ==
    /\ pc = "idle"
    /\ mimeType' = mime
    /\ errPtr' = ep
    /\ idx' = 1
    /\ decoders' = <<>>
    /\ LET start == [NoCall EXCEPT !.op = "CreateDecoderForInputSource",
                                   !.preSrcOpen = source.isOpen] IN
       IF src = NULL
       THEN /\ pc' = "failed"
            /\ inputSource' = NULL
            /\ last' = start
            /\ UNCHANGED <<source, error, flagReads>>
       ELSE /\ flagReads' = {sAutomaticallyOpenDecoders}
            /\ IF MustOpenSource(sAutomaticallyOpenDecoders, source.isOpen)
               THEN IF srcOk
                    THEN /\ source' = [source EXCEPT !.isOpen = TRUE]
                         /\ inputSource' = SRC
                         /\ pc' = AfterBegin(mime)
                         /\ last' = [start EXCEPT !.calls = << <<"InputSource::Open", 1>> >>]
                         /\ UNCHANGED error
                    ELSE /\ inputSource' = NULL
                         /\ pc' = "failed"
                         /\ error' = IF ep /\ setsErr THEN InputSourceError ELSE error
                         /\ last' = [start EXCEPT !.calls = << <<"InputSource::Open", 0>> >>]
                         /\ UNCHANGED source
               ELSE /\ inputSource' = SRC
                    /\ pc' = AfterBegin(mime)
                    /\ last' = start
                    /\ UNCHANGED <<source, error>>
    /\ UNCHANGED <<region, sRegisteredSubclasses, sAutomaticallyOpenDecoders>>

\* The loop opens the decoder it constructed whatever the flag says.
ScanStep_AlwaysOpen(phase, handles, fn, exhausted) ==
    IF idx > Len(sRegisteredSubclasses)
    THEN /\ exhausted
         /\ UNCHANGED <<decoders, flagReads, idx>>
    ELSE IF ~handles[idx]
         THEN /\ idx' = idx + 1
              /\ last' = Logged(<< <<fn, idx>> >>)
              /\ UNCHANGED <<pc, inputSource, decoders, flagReads>>
         ELSE /\ decoders' = Append(decoders,
                                NewDecoder(idx, phase, inputSource, source.isOpen))
              /\ inputSource' = NULL
              /\ flagReads' = flagReads \cup {sAutomaticallyOpenDecoders}
              /\ UNCHANGED idx
              /\ pc' = phase \o "Open"
              /\ last' = Logged(<< <<fn, idx>>, <<"mCreateDecoder", idx>> >>)

\* One iteration of a range-for over sRegisteredSubclasses up to the read of
\* the flag: test the subclass, construct its decoder, return it unopened
\* if the flag is clear.  handles[p] is the loop's predicate on subclass p,
\* fn its name, exhausted what follows the loop.
ScanStep(phase, handles, fn, exhausted) ==
    IF idx > Len(sRegisteredSubclasses)
    THEN /\ exhausted
         /\ UNCHANGED <<decoders, flagReads, idx>>
    ELSE IF ~handles[idx]
         THEN /\ idx' = idx + 1
              /\ last' = Logged(<< <<fn, idx>> >>)
              /\ UNCHANGED <<pc, inputSource, decoders, flagReads>>
         ELSE /\ decoders' = Append(decoders,
                                NewDecoder(idx, phase, inputSource, source.isOpen))
              /\ inputSource' = NULL
              /\ flagReads' = flagReads \cup {sAutomaticallyOpenDecoders}
              /\ UNCHANGED idx
              /\ IF ~sAutomaticallyOpenDecoders
                 THEN /\ pc' = "returned"
                      /\ last' = Returned(<< <<fn, idx>>, <<"mCreateDecoder", idx>> >>,
                                          Len(decoders) + 1)
                 ELSE /\ pc' = phase \o "Open"
                      /\ last' = Logged(<< <<fn, idx>>, <<"mCreateDecoder", idx>> >>)

\* decoder->Open(error) inside a loop of CreateDecoderForInputSource.
OpenStep(phase, srcOk, hookOk, setsErr) ==
    LET d == decoders[Cur]
        r == DecoderOpen(d.mIsOpen, source.isOpen, error, errPtr, srcOk, hookOk, setsErr)
    IN /\ decoders' = [decoders EXCEPT ![Cur].mIsOpen = r.mIsOpen]
       /\ source' = [source EXCEPT !.isOpen = r.srcIsOpen]
       /\ error' = r.error
       /\ IF r.ret
          THEN /\ pc' = "returned"
               /\ last' = Returned(r.calls, Cur)
          ELSE /\ pc' = phase \o "Reclaim"
               /\ last' = Logged(r.calls)
       /\ UNCHANGED <<region, sRegisteredSubclasses, sAutomaticallyOpenDecoders, inputSource,
                      mimeType, errPtr, idx, flagReads>>

\* The failed decoder is destroyed without the source being taken back.
ReclaimStep_Drop(phase) ==
    /\ inputSource' = NULL
    /\ decoders' = [decoders EXCEPT ![Cur].live = FALSE]
    /\ idx' = idx + 1
    /\ pc' = phase \o "Scan"
    /\ UNCHANGED <<region, sRegisteredSubclasses, sAutomaticallyOpenDecoders, source,
                   mimeType, errPtr, error, flagReads, last>>

\* The pointer is copied out of the failed decoder, which keeps it.
ReclaimStep_Copy(phase) ==
    /\ inputSource' = decoders[Cur].mInputSource
    /\ idx' = idx + 1
    /\ pc' = phase \o "Scan"
    /\ UNCHANGED <<region, sRegisteredSubclasses, sAutomaticallyOpenDecoders, source,
                   mimeType, errPtr, error, flagReads, last, decoders>>

\* After a failed open the MIME loop is abandoned for the extension.
ReclaimStep_GiveUp(phase) ==
    /\ inputSource' = decoders[Cur].mInputSource
    /\ decoders' = [decoders EXCEPT ![Cur].mInputSource = NULL, ![Cur].live = FALSE]
    /\ idx' = idx + 1
    /\ pc' = IF phase = "mime" THEN "ext" ELSE phase \o "Scan"
    /\ UNCHANGED <<region, sRegisteredSubclasses, sAutomaticallyOpenDecoders, source,
                   mimeType, errPtr, error, flagReads, last>>

\* inputSource = std::move(decoder->mInputSource); the failed decoder is
\* destroyed when its block ends and the loop moves on.
ReclaimStep(phase) ==
    /\ inputSource' = decoders[Cur].mInputSource
    /\ decoders' = [decoders EXCEPT ![Cur].mInputSource = NULL, ![Cur].live = FALSE]
    /\ idx' = idx + 1
    /\ pc' = phase \o "Scan"
    /\ UNCHANGED <<region, sRegisteredSubclasses, sAutomaticallyOpenDecoders, source,
                   mimeType, errPtr, error, flagReads, last>>

\* The MIME loop.
Resolve_MimeScan ==
    /\ pc = "mimeScan"
    /\ ScanStep("mime",
                [p \in DOMAIN sRegisteredSubclasses |->
                    mHandlesMIMEType(sRegisteredSubclasses[p], mimeType)],
                "mHandlesMIMEType",
                pc' = "ext" /\ UNCHANGED <<inputSource, last>>)
    /\ UNCHANGED <<region, sRegisteredSubclasses, sAutomaticallyOpenDecoders, source,
                   mimeType, errPtr, error>>

Resolve_MimeOpen(srcOk, hookOk, setsErr) ==
    /\ pc = "mimeOpen"
    /\ OpenStep("mime", srcOk, hookOk, setsErr)

Resolve_MimeReclaim ==
    /\ pc = "mimeReclaim"
    /\ ReclaimStep("mime")

\* The caller's error after the checks of the URL and of its extension:
\* only a URL without extension stores the unknown-file-type error.
ExtensionError_Silent(inputURL, pathExtension, ep, err) == err

\* The unknown-file-type error is stored before the extension is looked at.
ExtensionError_Always(inputURL, pathExtension, ep, err) ==
    IF ep THEN UnknownFileTypeError ELSE err

ExtensionError(inputURL, pathExtension, ep, err) ==
    IF inputURL /= NULL /\ pathExtension = NULL /\ ep
    THEN UnknownFileTypeError
    ELSE err

\* Extension-based resolution, before its loop: the URL and its extension.
Resolve_Extension ==
    /\ pc = "ext"
    /\ LET inputURL == source.url
           pathExtension == CFURLCopyPathExtension(inputURL)
       IN /\ last' = Logged(<< <<"InputSource::GetURL", B2I(inputURL /= NULL)>> >>)
          /\ IF inputURL = NULL
             THEN /\ pc' = "failed"
                  /\ inputSource' = NULL
                  /\ UNCHANGED idx
             ELSE IF pathExtension = NULL
             THEN /\ pc' = "failed"
                  /\ inputSource' = NULL
                  /\ UNCHANGED idx
             ELSE /\ pc' = "extScan"
                  /\ idx' = 1
                  /\ UNCHANGED inputSource
          /\ error' = ExtensionError(inputURL, pathExtension, errPtr, error)
    /\ UNCHANGED <<region, sRegisteredSubclasses, sAutomaticallyOpenDecoders, source,
                   mimeType, errPtr, decoders, flagReads>>

\* The extension loop.
Resolve_ExtScan ==
    /\ pc = "extScan"
    /\ ScanStep("ext",
                [p \in DOMAIN sRegisteredSubclasses |->
                    mHandlesFilesWithExtension(sRegisteredSubclasses[p],
                                               CFURLCopyPathExtension(source.url))],
                "mHandlesFilesWithExtension",
                pc' = "failed" /\ inputSource' = NULL /\ UNCHANGED last)
    /\ UNCHANGED <<region, sRegisteredSubclasses, sAutomaticallyOpenDecoders, source,
                   mimeType, errPtr, error>>

Resolve_ExtOpen(srcOk, hookOk, setsErr) ==
    /\ pc = "extOpen"
    /\ OpenStep("ext", srcOk, hookOk, setsErr)

Resolve_ExtReclaim ==
    /\ pc = "extReclaim"
    /\ ReclaimStep("ext")

\* The caller holds the decoder CreateDecoderForInputSource returned.
Call(op, arg, buf) ==
    [NoCall EXCEPT !.op = op, !.arg = arg, !.buf = buf,
                   !.preIsOpen = decoders[Cur].mIsOpen,
                   !.preSrcOpen = source.isOpen]

CallerFrame ==
    /\ pc = "returned"
    /\ decoders[Cur].live
    /\ UNCHANGED <<region, sRegisteredSubclasses, sAutomaticallyOpenDecoders, pc, inputSource,
                   mimeType, errPtr, idx, flagReads>>

\* Decoder::Open called by the owner of the decoder.
Open(srcOk, hookOk, setsErr) ==
    /\ CallerFrame
    /\ LET d == decoders[Cur]
           r == DecoderOpen(d.mIsOpen, source.isOpen, error, errPtr, srcOk, hookOk, setsErr)
       IN /\ decoders' = [decoders EXCEPT ![Cur].mIsOpen = r.mIsOpen]
          /\ source' = [source EXCEPT !.isOpen = r.srcIsOpen]
          /\ error' = r.error
          /\ last' = [Call("Open", 0, FALSE) EXCEPT !.retBool = r.ret, !.calls = r.calls]

\* Decoder::Close called by the owner of the decoder.
Close(hookOk, srcOk, setsErr) ==
    /\ CallerFrame
    /\ LET d == decoders[Cur]
           r == DecoderClose(d.mIsOpen, source.isOpen, error, errPtr, hookOk, srcOk, setsErr)
       IN /\ decoders' = [decoders EXCEPT ![Cur].mIsOpen = r.mIsOpen,
                                         ![Cur].closedOnce = @ \/ (d.mIsOpen /\ r.ret)]
          /\ source' = [source EXCEPT !.isOpen = r.srcIsOpen]
          /\ error' = r.error
          /\ last' = [Call("Close", 0, FALSE) EXCEPT !.retBool = r.ret, !.calls = r.calls]

DecoderReadAudio_NoOpenCheck(mIsOpen, buf, frameCount, hookRet) ==
    IF ~buf \/ frameCount = 0 THEN [ret |-> 0, calls |-> <<>>]
    ELSE [ret |-> hookRet, calls |-> << <<"_ReadAudio", hookRet>> >>]

\* ReadAudio that hands its arguments to the hook unchecked.
DecoderReadAudio_NoArgCheck(mIsOpen, buf, frameCount, hookRet) ==
    IF ~mIsOpen THEN [ret |-> 0, calls |-> <<>>]
    ELSE [ret |-> hookRet, calls |-> << <<"_ReadAudio", hookRet>> >>]

\* Decoder::ReadAudio.  buf: bufferList != nullptr; hookRet: what _ReadAudio
\* returns if it is called.
DecoderReadAudio(mIsOpen, buf, frameCount, hookRet) ==
    IF ~mIsOpen THEN [ret |-> 0, calls |-> <<>>]
    ELSE IF ~buf \/ frameCount = 0 THEN [ret |-> 0, calls |-> <<>>]
    ELSE [ret |-> hookRet, calls |-> << <<"_ReadAudio", hookRet>> >>]

\* Decoder::GetTotalFrames / GetCurrentFrame: -1 unless open, else the hook.
DecoderGetTotalFrames(mIsOpen, hookRet) ==
    IF ~mIsOpen THEN [ret |-> -1, calls |-> <<>>]
    ELSE [ret |-> hookRet, calls |-> << <<"_GetTotalFrames", hookRet>> >>]

DecoderGetCurrentFrame(mIsOpen, hookRet) ==
    IF ~mIsOpen THEN [ret |-> -1, calls |-> <<>>]
    ELSE [ret |-> hookRet, calls |-> << <<"_GetCurrentFrame", hookRet>> >>]

\* Decoder::SupportsSeeking: false unless open, else the hook.
DecoderSupportsSeeking(mIsOpen, hookRet) ==
    IF ~mIsOpen THEN [ret |-> FALSE, calls |-> <<>>]
    ELSE [ret |-> hookRet, calls |-> << <<"_SupportsSeeking", B2I(hookRet)>> >>]

\* SeekToFrame that lets the frame one past the end through.
DecoderSeekToFrame_OffByOne(mIsOpen, frame, total, hookRet) ==
    IF ~mIsOpen THEN [ret |-> -1, calls |-> <<>>]
    ELSE IF 0 > frame THEN [ret |-> -1, calls |-> <<>>]
    ELSE IF frame > total
         THEN [ret |-> -1, calls |-> << <<"_GetTotalFrames", total>> >>]
         ELSE [ret |-> hookRet,
               calls |-> << <<"_GetTotalFrames", total>>, <<"_SeekToFrame", hookRet>> >>]

\* Decoder::SeekToFrame.  total: what _GetTotalFrames returns if it is called
\* (0 > frame || frame >= GetTotalFrames() stops at a negative frame);
\* hookRet: what _SeekToFrame returns if it is called.
DecoderSeekToFrame(mIsOpen, frame, total, hookRet) ==
    IF ~mIsOpen THEN [ret |-> -1, calls |-> <<>>]
    ELSE IF 0 > frame THEN [ret |-> -1, calls |-> <<>>]
    ELSE LET t == DecoderGetTotalFrames(mIsOpen, total) IN
         IF frame >= t.ret
         THEN [ret |-> -1, calls |-> t.calls]
         ELSE [ret |-> hookRet, calls |-> t.calls \o << <<"_SeekToFrame", hookRet>> >>]

Query ==
    /\ CallerFrame
    /\ UNCHANGED <<decoders, source, error>>

ReadAudio(buf, frameCount, hookRet) ==
    /\ Query
    /\ LET r == DecoderReadAudio(decoders[Cur].mIsOpen, buf, frameCount, hookRet)
       IN last' = [Call("ReadAudio", frameCount, buf) EXCEPT !.retInt = r.ret, !.calls = r.calls]

GetTotalFrames(hookRet) ==
    /\ Query
    /\ LET r == DecoderGetTotalFrames(decoders[Cur].mIsOpen, hookRet)
       IN last' = [Call("GetTotalFrames", 0, FALSE) EXCEPT !.retInt = r.ret, !.calls = r.calls]

GetCurrentFrame(hookRet) ==
    /\ Query
    /\ LET r == DecoderGetCurrentFrame(decoders[Cur].mIsOpen, hookRet)
       IN last' = [Call("GetCurrentFrame", 0, FALSE) EXCEPT !.retInt = r.ret, !.calls = r.calls]

SupportsSeeking(hookRet) ==
    /\ Query
    /\ LET r == DecoderSupportsSeeking(decoders[Cur].mIsOpen, hookRet)
       IN last' = [Call("SupportsSeeking", 0, FALSE) EXCEPT !.retBool = r.ret, !.calls = r.calls]

SeekToFrame(frame, total, hookRet) ==
    /\ Query
    /\ LET r == DecoderSeekToFrame(decoders[Cur].mIsOpen, frame, total, hookRet)
       IN last' = [Call("SeekToFrame", frame, FALSE) EXCEPT !.retInt = r.ret, !.calls = r.calls]

Frames == 0..MaxFrame
FramesOrFail == -1..MaxFrame

Next ==
    \/ \E flag \in BOOLEAN : SetAutomaticallyOpenDecoders(flag)
    \/ \E mimeArg \in CallerMIMETypes : HandlesMIMEType(mimeArg)
    \/ \E extension \in CallerExtensions : HandlesFilesWithExtension(extension)
    \/ \E src \in {NULL, SRC}, mime \in CallerMIMETypes, ep, srcOk, setsErr \in BOOLEAN :
          Resolve_Begin(src, mime, ep, srcOk, setsErr)
    \/ Resolve_MimeScan
    \/ \E srcOk, hookOk, setsErr \in BOOLEAN : Resolve_MimeOpen(srcOk, hookOk, setsErr)
    \/ Resolve_MimeReclaim
    \/ Resolve_Extension
    \/ Resolve_ExtScan
    \/ \E srcOk, hookOk, setsErr \in BOOLEAN : Resolve_ExtOpen(srcOk, hookOk, setsErr)
    \/ Resolve_ExtReclaim

\* One call of CreateDecoderForInputSource, with the flag stored to concurrently.
Spec == Init /\ [][Next]_vars

\* A decoder just constructed by a subclass's CreateDecoder over an
\* InputSource (Decoder::Decoder(InputSource::unique_ptr): closed, owning
\* the source), in the hands of its owner.
InitDecoder ==
    /\ sRegisteredSubclasses = [i \in 1..NumPlugins |-> [mimes |-> {}, exts |-> {}]]
    /\ sAutomaticallyOpenDecoders = FALSE
    /\ source \in [isOpen : BOOLEAN, url : {"file.a"}]
    /\ pc = "returned"
    /\ inputSource = NULL
    /\ mimeType = NULL
    /\ errPtr \in BOOLEAN
    /\ error = NoError
    /\ idx = 1
    /\ decoders = << NewDecoder(1, "caller", SRC, source.isOpen) >>
    /\ flagReads = {}
    /\ last = NoCall
    /\ region = NoRegion

NextDecoder ==
    \/ \E srcOk, hookOk, setsErr \in BOOLEAN : Open(srcOk, hookOk, setsErr)
    \/ \E hookOk, srcOk, setsErr \in BOOLEAN : Close(hookOk, srcOk, setsErr)
    \/ \E buf \in BOOLEAN, frameCount \in Frames :
          \E hookRet \in 0..frameCount : ReadAudio(buf, frameCount, hookRet)
    \/ \E hookRet \in Frames : GetTotalFrames(hookRet)
    \/ \E hookRet \in Frames : GetCurrentFrame(hookRet)
    \/ \E hookRet \in BOOLEAN : SupportsSeeking(hookRet)
    \/ \E frame \in FramesOrFail, total \in Frames, hookRet \in FramesOrFail :
          SeekToFrame(frame, total, hookRet)

\* The open/close state machine and the guarded frame operations of one decoder.
SpecDecoder == InitDecoder /\ [][NextDecoder]_vars

(***************************************************************************)
(* Region decoders.  CreateDecoderForDecoderRegion is in AudioDecoder.cpp; *)
(* the LoopableRegionDecoder it constructs is not, and follows the         *)
(* description of the region decoder: a window [start, start + count) of   *)
(* the wrapped decoder, played repeatCount + 1 times.                      *)
(***************************************************************************)

Min(a, b) == IF a <= b THEN a ELSE b

\* LoopableRegionDecoder(decoder, startingFrame, frameCount, repeatCount)
LoopableRegionDecoder(r, startingFrame, frameCount, repeatCount) ==
    [r EXCEPT !.state = "created",
              !.mStartingFrame = startingFrame,
              !.mFrameCount = frameCount,
              !.mRepeatCount = repeatCount]

\* The frame count and the repeat count, both UInt32, change places.
CreateDecoderForDecoderRegion_Swapped(r, hasDecoder, startingFrame, frameCount, repeatCount) ==
    IF ~hasDecoder THEN [r EXCEPT !.state = "null"]
    ELSE LoopableRegionDecoder(r, startingFrame, repeatCount, frameCount)

\* Decoder::CreateDecoderForDecoderRegion(decoder, startingFrame, frameCount,
\* repeatCount, error): nullptr for a null decoder, else the region decoder.
CreateDecoderForDecoderRegion(r, hasDecoder, startingFrame, frameCount, repeatCount) ==
    IF ~hasDecoder THEN [r EXCEPT !.state = "null"]
    ELSE LoopableRegionDecoder(r, startingFrame, frameCount, repeatCount)

\* Decoder::CreateDecoderForDecoderRegion(decoder, startingFrame, frameCount,
\* error): the same with the region played once.
CreateDecoderForDecoderRegionOnce(r, hasDecoder, startingFrame, frameCount) ==
    IF ~hasDecoder THEN [r EXCEPT !.state = "null"]
    ELSE LoopableRegionDecoder(r, startingFrame, frameCount, 0)

\* Open of the region decoder, the wrapped decoder being open: the region
\* must lie within the stream; the wrapped decoder is sent to the start
\* (through Decoder::SeekToFrame) and the region starts at its frame 0.
RegionOpen(r) ==
    IF r.mStartingFrame < 0 \/ r.mStartingFrame + r.mFrameCount > r.innerTotal
    THEN r
    ELSE IF DecoderSeekToFrame(TRUE, r.mStartingFrame, r.innerTotal,
                               r.mStartingFrame).ret = -1
    THEN r
    ELSE [r EXCEPT !.isOpen = TRUE, !.innerPos = r.mStartingFrame,
                   !.framesReadInPass = 0, !.repeatsLeft = r.mRepeatCount,
                   !.totalRead = 0]

\* The read hook of the region decoder: read from the wrapped decoder
\* (through Decoder::ReadAudio) up to the end of the region; at the end,
\* while repeats remain, send it back to the start and go on filling the
\* buffer; stop when the buffer is full or nothing more comes.
RECURSIVE RegionRead(_, _, _)
RegionRead(r, remaining, produced) ==
    LET toRead == Min(r.mFrameCount - r.framesReadInPass, remaining)
        got == DecoderReadAudio(TRUE, TRUE, toRead,
                                Min(toRead, r.innerTotal - r.innerPos)).ret
    IN IF remaining = 0 \/ got = 0
       THEN [r |-> r, produced |-> produced]
       ELSE LET r1 == [r EXCEPT !.innerPos = @ + got,
                                !.framesReadInPass = @ + got,
                                !.totalRead = @ + got]
                r2 == IF r1.framesReadInPass = r1.mFrameCount /\ r1.repeatsLeft > 0
                      THEN [r1 EXCEPT !.innerPos = r1.mStartingFrame,
                                      !.framesReadInPass = 0,
                                      !.repeatsLeft = @ - 1]
                      ELSE r1
            IN RegionRead(r2, remaining - got, produced + got)

RegionFrame ==
    UNCHANGED <<sRegisteredSubclasses, sAutomaticallyOpenDecoders, pc, inputSource,
                mimeType, errPtr, idx, flagReads, last>>

\* The owner of a decoder wraps it in a region decoder.
Region_Create(hasDecoder, startingFrame, frameCount, repeatCount, once) ==
    /\ pc = "returned" /\ region.state = "none"
    /\ region' = [(IF once
                   THEN CreateDecoderForDecoderRegionOnce(region, hasDecoder,
                            startingFrame, frameCount)
                   ELSE CreateDecoderForDecoderRegion(region, hasDecoder,
                            startingFrame, frameCount, repeatCount))
                  EXCEPT !.args = <<startingFrame, frameCount,
                                    IF once THEN 0 ELSE repeatCount>>]
    /\ RegionFrame
    /\ UNCHANGED <<decoders, source, error>>

\* Open on the region decoder: Decoder::Open of the wrapped decoder if it
\* is not open yet, then the region's own open.  lastReq and lastGot record
\* the latest read since the open.
Region_Open(srcOk, hookOk, setsErr) ==
    /\ region.state = "created" /\ ~region.isOpen
    /\ LET d == decoders[Cur]
           o == DecoderOpen(d.mIsOpen, source.isOpen, error, errPtr, srcOk, hookOk, setsErr)
       IN /\ decoders' = [decoders EXCEPT ![Cur].mIsOpen = o.mIsOpen]
          /\ source' = [source EXCEPT !.isOpen = o.srcIsOpen]
          /\ error' = o.error
          /\ region' = IF o.ret
                       THEN [RegionOpen(region) EXCEPT !.lastReq = 0, !.lastGot = 0]
                       ELSE region
    /\ RegionFrame

\* ReadAudio on the region decoder: the guards of Decoder::ReadAudio, then
\* the region's read hook.
Region_ReadAudio(frameCount) ==
    /\ region.state = "created"
    /\ LET h == RegionRead(region, frameCount, 0)
           res == DecoderReadAudio(region.isOpen, TRUE, frameCount, h.produced)
       IN region' = [(IF res.calls = <<>> THEN region ELSE h.r)
                     EXCEPT !.lastReq = frameCount, !.lastGot = res.ret]
    /\ RegionFrame
    /\ UNCHANGED <<decoders, source, error>>

InitRegion ==
    /\ sRegisteredSubclasses = [i \in 1..NumPlugins |-> [mimes |-> {}, exts |-> {}]]
    /\ sAutomaticallyOpenDecoders = FALSE
    /\ source \in [isOpen : BOOLEAN, url : {"file.a"}]
    /\ pc = "returned"
    /\ inputSource = NULL
    /\ mimeType = NULL
    /\ errPtr = FALSE
    /\ error = NoError
    /\ idx = 1
    /\ decoders = << NewDecoder(1, "caller", SRC, source.isOpen) >>
    /\ flagReads = {}
    /\ last = NoCall
    /\ region \in {[NoRegion EXCEPT !.innerTotal = t] : t \in 1..MaxInnerFrames}

NextRegion ==
    \/ \E hasDecoder, once \in BOOLEAN, startingFrame \in 0..MaxInnerFrames,
          frameCount \in 1..MaxInnerFrames, repeatCount \in 0..MaxRepeat :
          Region_Create(hasDecoder, startingFrame, frameCount, repeatCount, once)
    \/ \E srcOk, hookOk, setsErr \in BOOLEAN : Region_Open(srcOk, hookOk, setsErr)
    \/ \E frameCount \in 0..(MaxFrame + 1) : Region_ReadAudio(frameCount)

\* A region decoder made over a fresh decoder, opened and read by its owner.
SpecRegion == InitRegion /\ [][NextRegion]_vars

(***************************************************************************)
(* Properties                                                              *)
(***************************************************************************)

\* The calls of the last operation to the callee named f, in order.
CallsTo(f) == SelectSeq(last.calls, LAMBDA c : c[1] = f)
Called(f) == CallsTo(f) /= <<>>

FrameOps == {"ReadAudio", "GetTotalFrames", "GetCurrentFrame", "SeekToFrame",
             "SupportsSeeking"}

\* C1: on a decoder that is not open, ReadAudio returns 0, GetTotalFrames,
\* GetCurrentFrame and SeekToFrame return -1 and SupportsSeeking returns
\* false, whatever the arguments, and no plugin hook is invoked.
C1_ClosedDecoderSafety ==
    (last.op \in FrameOps /\ ~last.preIsOpen) =>
        /\ last.calls = <<>>
        /\ last.op = "ReadAudio" => last.retInt = 0
        /\ last.op \in {"GetTotalFrames", "GetCurrentFrame", "SeekToFrame"}
              => last.retInt = -1
        /\ last.op = "SupportsSeeking" => last.retBool = FALSE

C1_Witness ==
    /\ last.op = "ReadAudio" /\ ~last.preIsOpen
    /\ last.buf /\ last.arg > 0
    /\ source.isOpen

\* C2: Close on an open decoder leaves the decoder closed, whether or not
\* the close hook succeeds.
C2_CloseAlwaysCloses ==
    (last.op = "Close" /\ last.preIsOpen) => ~decoders[Cur].mIsOpen

\* The resolve call is over.
Finished == pc \in {"returned", "failed"}
\* The call was made with a non-null input source.
GivenSource == flagReads /= {}
\* Every read of the flag in the call so far returned true.
FlagSetThroughout == flagReads = {TRUE}
\* Some InputSource::Open or _Open in the call failed.
OpenFailed == \E j \in DOMAIN last.calls :
                 last.calls[j] \in {<<"InputSource::Open", 0>>, <<"_Open", 0>>}

\* C3: with automatic opening on, when the decoder of the first plugin that
\* matches the MIME type fails to open, the next plugin tried is handed the
\* same input source, non-null and still open.
C3_SourceReusedAfterFailedOpen ==
    (/\ FlagSetThroughout
     /\ Len(decoders) >= 2
     /\ decoders[1].phase = "mime")
    => /\ decoders[2].givenSource = SRC
       /\ decoders[2].givenOpen

C3_Witness ==
    /\ FlagSetThroughout
    /\ Len(decoders) >= 2
    /\ decoders[1].phase = "mime" /\ ~decoders[1].live
    /\ decoders[2].phase = "mime"
    /\ Called("_Open")

\* The registered plugins that handle a MIME type / a path extension.
MIMEHandlers(mime) ==
    {p \in DOMAIN sRegisteredSubclasses : mime \in sRegisteredSubclasses[p].mimes}
ExtensionHandlers(ext) ==
    {p \in DOMAIN sRegisteredSubclasses : ext \in sRegisteredSubclasses[p].exts}

\* C4: the source's extension is handled by plugin a only and a MIME type
\* by another plugin b only, and no open fails: the call returns b's decoder
\* when that MIME type is passed and a's decoder when none is passed.
C4_MIMETypePrecedesExtension ==
    \A a, b \in DOMAIN sRegisteredSubclasses : \A m \in PluginMIMETypes :
        (/\ Finished /\ GivenSource /\ ~OpenFailed
         /\ a /= b
         /\ ExtensionHandlers(CFURLCopyPathExtension(source.url)) = {a}
         /\ MIMEHandlers(m) = {b})
        => /\ mimeType = m => (pc = "returned" /\ decoders[Cur].plugin = b)
           /\ mimeType = NULL => (pc = "returned" /\ decoders[Cur].plugin = a)

C4_Witness ==
    /\ pc = "returned"
    /\ mimeType /= NULL
    /\ ExtensionHandlers(CFURLCopyPathExtension(source.url)) = {1}
    /\ MIMEHandlers(mimeType) = {2}
    /\ decoders[Cur].plugin = 2
    /\ decoders[Cur].mIsOpen

\* The holders of the input source: the resolver's pointer and the live decoders.
DecoderHolders == {k \in DOMAIN decoders :
                      decoders[k].live /\ decoders[k].mInputSource /= NULL}
Holders == Cardinality(DecoderHolders) + (IF inputSource /= NULL THEN 1 ELSE 0)

\* C5: throughout a resolve call the input source is held by the resolver
\* or by exactly one live decoder, never by two holders.
C5_SingleOwner ==
    /\ Holders <= 1
    /\ pc \notin {"idle", "failed"} => Holders = 1

C5_Witness ==
    /\ pc = "mimeScan"
    /\ Len(decoders) >= 1 /\ ~decoders[Len(decoders)].live
    /\ inputSource = SRC
    /\ idx <= Len(sRegisteredSubclasses)

\* C6: Open on an open decoder and Close on a closed decoder return true,
\* call neither a hook nor the input source, and change neither the
\* decoder's open flag nor the source's open state.
C6_Idempotence ==
    /\ (last.op = "Open" /\ last.preIsOpen) =>
          /\ last.retBool /\ last.calls = <<>>
          /\ decoders[Cur].mIsOpen /\ source.isOpen = last.preSrcOpen
    /\ (last.op = "Close" /\ ~last.preIsOpen) =>
          /\ last.retBool /\ last.calls = <<>>
          /\ ~decoders[Cur].mIsOpen /\ source.isOpen = last.preSrcOpen

C6_Witness == last.op = "Open" /\ last.preIsOpen /\ last.preSrcOpen

\* C7: Open on a closed decoder.  If the source is not open and opening it
\* fails: false, the open hook is not called, the decoder stays closed.
\* Otherwise the open hook is called once, and the decoder is open and the
\* result true exactly when the hook succeeded.
C7_OpenOutcome ==
    (last.op = "Open" /\ ~last.preIsOpen) =>
        /\ Len(CallsTo("InputSource::Open")) = (IF last.preSrcOpen THEN 0 ELSE 1)
        /\ IF ~last.preSrcOpen /\ CallsTo("InputSource::Open") = << <<"InputSource::Open", 0>> >>
           THEN /\ ~last.retBool
                /\ ~Called("_Open")
                /\ ~decoders[Cur].mIsOpen
           ELSE /\ Len(CallsTo("_Open")) = 1
                /\ decoders[Cur].mIsOpen = (CallsTo("_Open")[1][2] = 1)
                /\ last.retBool = (CallsTo("_Open")[1][2] = 1)

C7_Witness ==
    /\ last.op = "Open" /\ ~last.preIsOpen /\ ~last.preSrcOpen
    /\ last.calls = << <<"InputSource::Open", 1>>, <<"_Open", 0>> >>
    /\ ~decoders[Cur].mIsOpen

\* C8: Close on an open decoder returns true exactly when both the close
\* hook and the closing of the input source succeeded.
C8_CloseResult ==
    (last.op = "Close" /\ last.preIsOpen) =>
        last.retBool = (/\ <<"_Close", 1>> \in {last.calls[j] : j \in DOMAIN last.calls}
                        /\ <<"InputSource::Close", 1>> \in {last.calls[j] : j \in DOMAIN last.calls})

C8_Witness ==
    /\ last.op = "Close" /\ last.preIsOpen
    /\ last.calls = << <<"_Close", 1>>, <<"InputSource::Close", 0>> >>
    /\ ~last.retBool

\* C9: every Close on an open decoder calls the close hook and then closes
\* the input source, once each and in this order, also when the hook fails.
C9_SourceClosedAfterHook ==
    (last.op = "Close" /\ last.preIsOpen) =>
        /\ Len(last.calls) = 2
        /\ last.calls[1][1] = "_Close"
        /\ last.calls[2][1] = "InputSource::Close"
        /\ last.calls[2][2] = 1 => ~source.isOpen

C9_Witness ==
    /\ last.op = "Close" /\ last.preIsOpen
    /\ last.calls = << <<"_Close", 0>>, <<"InputSource::Close", 1>> >>
    /\ ~source.isOpen

\* The call got as far as extension-based resolution, on a source without
\* a URL or whose URL has no path extension.
ReachedExtensionUnknown ==
    /\ Called("InputSource::GetURL")
    /\ CFURLCopyPathExtension(source.url) = NULL

\* C10 as stated: extension-based resolution on a source without a URL, or
\* whose URL has no path extension, returns null and stores the
\* unknown-file-type error in the caller's error, in both cases.
C10_UnknownFileTypeBothCases ==
    (ReachedExtensionUnknown /\ errPtr) =>
        /\ pc = "failed"
        /\ error = UnknownFileTypeError

\* C10 amended: it returns null in both cases; the unknown-file-type error
\* is stored (through a non-null error pointer) when the URL has no path
\* extension, and is not stored when the source has no URL.
C10_UnknownFileTypeNeedsURL ==
    ReachedExtensionUnknown =>
        /\ pc = "failed"
        /\ (source.url /= NULL /\ errPtr) => error = UnknownFileTypeError
        /\ source.url = NULL => error /= UnknownFileTypeError

C10_Witness ==
    /\ ReachedExtensionUnknown
    /\ source.url = "file"
    /\ mimeType /= NULL
    /\ Called("_Open")
    /\ error = UnknownFileTypeError
\* The first element, in registration order, of a non-empty set of plugins.
First(S) == CHOOSE p \in S : \A q \in S : p <= q
\* Every read of the flag in the call so far returned false.
FlagClearThroughout == flagReads = {FALSE}

\* C11: with automatic opening off and a MIME type passed, the call returns
\* the decoder of the first registered plugin that handles the MIME type,
\* unopened, and constructs no decoder of a later plugin.
C11_FirstMIMEMatchUnopened ==
    (/\ Finished /\ FlagClearThroughout
     /\ mimeType /= NULL /\ MIMEHandlers(mimeType) /= {})
    => /\ pc = "returned"
       /\ Len(decoders) = 1
       /\ decoders[1].plugin = First(MIMEHandlers(mimeType))
       /\ decoders[1].phase = "mime"
       /\ ~decoders[1].mIsOpen
       /\ ~Called("_Open") /\ ~Called("InputSource::Open")
       /\ \A j \in DOMAIN last.calls : last.calls[j][2] <= decoders[1].plugin

C11_Witness ==
    /\ pc = "returned" /\ FlagClearThroughout
    /\ mimeType /= NULL
    /\ Cardinality(MIMEHandlers(mimeType)) >= 2
    /\ decoders[1].plugin = 1
    /\ ~decoders[1].mIsOpen
\* The entry of the call failed to open the input source.
EntryOpenFailed == last.calls = << <<"InputSource::Open", 0>> >>

\* C12: with automatic opening on and a MIME type passed, the plugins that
\* handle the MIME type are tried in registration order until one opens;
\* when none opens the call goes on to the extension with the same source
\* instead of failing, so an extension candidate is constructed only after
\* every MIME candidate has been tried.
C12_MIMECandidatesThenExtension ==
    (GivenSource /\ FlagSetThroughout /\ mimeType /= NULL) =>
        LET H == MIMEHandlers(mimeType) IN
        /\ \A k \in DOMAIN decoders :
              /\ decoders[k].phase = "mime" =>
                    /\ decoders[k].plugin \in H
                    /\ Cardinality({p \in H : p < decoders[k].plugin}) = k - 1
              /\ decoders[k].phase = "ext" =>
                    \A p \in H : \E j \in 1..(k - 1) :
                        /\ decoders[j].phase = "mime" /\ decoders[j].plugin = p
                        /\ ~decoders[j].live /\ ~decoders[j].mIsOpen
              /\ decoders[k].mIsOpen => (k = Len(decoders) /\ pc = "returned")
        /\ pc = "ext" => inputSource = SRC
        /\ pc = "failed" => (Called("InputSource::GetURL") \/ EntryOpenFailed)

C12_Witness ==
    /\ FlagSetThroughout /\ mimeType /= NULL
    /\ Len(decoders) = 3
    /\ decoders[1].phase = "mime" /\ decoders[2].phase = "mime"
    /\ decoders[3].phase = "ext" /\ decoders[3].givenSource = SRC
\* The registered plugins that claim the MIME type passed or the extension
\* of the source's URL.
Claimers == MIMEHandlers(mimeType)
            \cup ExtensionHandlers(CFURLCopyPathExtension(source.url))

\* C13: whatever the registry and the source, when exactly one registered
\* plugin claims the source's extension or the MIME type passed and no open
\* fails, the call returns a non-null decoder constructed by that plugin.
C13_SoleClaimerIsReturned ==
    \A p \in DOMAIN sRegisteredSubclasses :
        (Finished /\ GivenSource /\ ~OpenFailed /\ Claimers = {p})
        => /\ pc = "returned"
           /\ last.retInt = Cur
           /\ decoders[Cur].plugin = p
           /\ decoders[Cur].live /\ decoders[Cur].mInputSource = SRC

C13_Witness ==
    /\ pc = "returned" /\ FlagSetThroughout
    /\ mimeType = "audio/b"
    /\ Claimers = {2}
    /\ decoders[Cur].plugin = 2 /\ decoders[Cur].mIsOpen
    /\ decoders[Cur].phase = "ext"
\* C14: SeekToFrame(frame) on an open decoder returns -1 without calling the
\* seek hook when frame < 0 or frame >= GetTotalFrames(); otherwise it calls
\* the seek hook exactly once and returns what the hook returned.
C14_SeekRange ==
    (last.op = "SeekToFrame" /\ last.preIsOpen) =>
        IF last.arg < 0
        THEN last.retInt = -1 /\ ~Called("_SeekToFrame")
        ELSE /\ Len(CallsTo("_GetTotalFrames")) = 1
             /\ IF last.arg >= CallsTo("_GetTotalFrames")[1][2]
                THEN last.retInt = -1 /\ ~Called("_SeekToFrame")
                ELSE /\ Len(CallsTo("_SeekToFrame")) = 1
                     /\ last.retInt = CallsTo("_SeekToFrame")[1][2]

C14_Witness ==
    /\ last.op = "SeekToFrame" /\ last.preIsOpen
    /\ last.arg = 1
    /\ last.calls = << <<"_GetTotalFrames", 2>>, <<"_SeekToFrame", 0>> >>
    /\ last.retInt = 0
\* C15: ReadAudio on an open decoder returns 0 without calling the read
\* hook when the buffer list is null or frameCount is 0; otherwise it calls
\* the read hook and returns what the hook returned.
C15_ReadArguments ==
    (last.op = "ReadAudio" /\ last.preIsOpen) =>
        IF ~last.buf \/ last.arg = 0
        THEN last.retInt = 0 /\ last.calls = <<>>
        ELSE /\ Len(last.calls) = 1
             /\ last.calls[1][1] = "_ReadAudio"
             /\ last.retInt = last.calls[1][2]

C15_Witness ==
    /\ last.op = "ReadAudio" /\ last.preIsOpen
    /\ last.buf /\ last.arg = 2
    /\ last.calls = << <<"_ReadAudio", 1>> >>
    /\ last.retInt = 1
\* No registered plugin handles the MIME type passed (if any) nor the path
\* extension, which the source's URL has.
NoPluginMatches ==
    /\ MIMEHandlers(mimeType) = {}
    /\ CFURLCopyPathExtension(source.url) /= NULL
    /\ ExtensionHandlers(CFURLCopyPathExtension(source.url)) = {}

\* C16: when the call fails because no registered plugin handles the MIME
\* type passed or the source's path extension, it returns null and leaves
\* the caller's error unset; and with automatic opening off throughout, the
\* error is set only when the URL has no path extension.
C16_NoMatchLeavesErrorUnset ==
    /\ (Finished /\ GivenSource /\ NoPluginMatches /\ ~EntryOpenFailed) =>
          /\ pc = "failed"
          /\ decoders = <<>>
          /\ error = NoError
    /\ (GivenSource /\ FlagClearThroughout /\ error /= NoError) =>
          /\ pc = "failed"
          /\ error = UnknownFileTypeError
          /\ source.url /= NULL /\ CFURLCopyPathExtension(source.url) = NULL

C16_Witness ==
    /\ pc = "failed" /\ GivenSource /\ NoPluginMatches
    /\ mimeType /= NULL /\ errPtr
    /\ Called("mHandlesMIMEType") /\ Called("mHandlesFilesWithExtension")
    /\ error = NoError
\* C17: with automatic opening on and the source not open yet, the call
\* opens the source before it consults any plugin; when that open fails it
\* returns null without calling a plugin's handles test or constructing a
\* decoder.
C17_SourceOpenedFirst ==
    (/\ last.op = "CreateDecoderForInputSource"
     /\ GivenSource /\ FlagSetThroughout /\ ~last.preSrcOpen)
    => /\ Len(last.calls) >= 1
       /\ last.calls[1][1] = "InputSource::Open"
       /\ last.calls[1][2] = 0 =>
             /\ pc = "failed"
             /\ Len(last.calls) = 1
             /\ decoders = <<>>
       /\ last.calls[1][2] = 1 => (source.isOpen \/ pc = "failed")

C17_Witness ==
    /\ pc = "failed" /\ FlagSetThroughout /\ ~last.preSrcOpen
    /\ mimeType /= NULL /\ MIMEHandlers(mimeType) /= {}
    /\ EntryOpenFailed
    /\ decoders = <<>>
\* C18: the life cycle can be repeated.  After an Open and a Close whose
\* hook and source close both succeeded the decoder and its source are
\* closed, and a further Open opens the source again, calls the open hook
\* again and, when both succeed, leaves the decoder open; the decoder is
\* never in a state other than closed or open.
C18_Reopen ==
    /\ \A k \in DOMAIN decoders : decoders[k].mIsOpen \in BOOLEAN
    /\ (last.op = "Close" /\ last.preIsOpen /\ last.retBool) =>
          /\ decoders[Cur].closedOnce
          /\ ~decoders[Cur].mIsOpen /\ ~source.isOpen
    /\ (/\ last.op = "Open" /\ decoders[Cur].closedOnce
        /\ ~last.preIsOpen /\ ~last.preSrcOpen)
       => /\ Len(last.calls) >= 1
          /\ last.calls[1][1] = "InputSource::Open"
          /\ last.calls[1][2] = 1 =>
                /\ Len(last.calls) = 2
                /\ last.calls[2][1] = "_Open"
                /\ last.calls[2][2] = 1 =>
                      (decoders[Cur].mIsOpen /\ source.isOpen /\ last.retBool)

C18_Witness ==
    /\ last.op = "Open" /\ decoders[Cur].closedOnce
    /\ ~last.preIsOpen /\ ~last.preSrcOpen
    /\ last.calls = << <<"InputSource::Open", 1>>, <<"_Open", 1>> >>
    /\ decoders[Cur].mIsOpen /\ source.isOpen
\* The plugins a registry query has to ask, in order: up to the first one
\* of H, or all of them when H is empty.
Consulted(fn, H) ==
    [j \in 1..(IF H /= {} THEN First(H) ELSE Len(sRegisteredSubclasses)) |-> <<fn, j>>]

\* C19: HandlesFilesWithExtension and HandlesMIMEType return true exactly
\* when some registered plugin's own test is true for the argument, ask the
\* plugins in registration order and stop at the first that says yes, and
\* return false for a null argument without asking any plugin.
C19_RegistryQueries ==
    /\ last.op = "HandlesMIMEType" =>
          /\ last.retBool = (MIMEHandlers(last.str) /= {})
          /\ last.calls = IF last.str = NULL THEN <<>>
                          ELSE Consulted("mHandlesMIMEType", MIMEHandlers(last.str))
    /\ last.op = "HandlesFilesWithExtension" =>
          /\ last.retBool = (ExtensionHandlers(last.str) /= {})
          /\ last.calls = IF last.str = NULL THEN <<>>
                          ELSE Consulted("mHandlesFilesWithExtension",
                                         ExtensionHandlers(last.str))

C19_Witness ==
    /\ last.op = "HandlesMIMEType" /\ last.retBool
    /\ Cardinality(MIMEHandlers(last.str)) >= 2
    /\ last.calls = << <<"mHandlesMIMEType", 1>> >>
\* The region of the region decoder lies within the wrapped stream.
RegionInside ==
    /\ region.state = "created"
    /\ region.args[1] + region.args[2] <= region.innerTotal

\* C20: for a region decoder whose region (startFrame, frameCount,
\* repeatCount) lies within the wrapped stream, the frames produced by
\* successive ReadAudio calls of any sizes, up to the call that signals the
\* end of the region by returning fewer frames than asked for, number
\* exactly frameCount * (repeatCount + 1).
C20_RegionTotal ==
    (RegionInside /\ region.isOpen) =>
        LET whole == region.args[2] * (region.args[3] + 1) IN
        /\ region.totalRead <= whole
        /\ region.lastGot <= region.lastReq
        /\ region.lastGot < region.lastReq => region.totalRead = whole

C20_Witness ==
    /\ RegionInside /\ region.isOpen
    /\ region.args = <<1, 2, 2>>
    /\ region.totalRead = 6
    /\ region.lastReq = 3 /\ region.lastGot = 1
\* C21: after any sequence of Open and Close calls by its owner, whatever
\* the open and close hooks and the input source's open and close report,
\* a decoder whose IsOpen() is true has an open input source.
C21_OpenDecoderHasOpenSource ==
    (decoders[Cur].live /\ decoders[Cur].mIsOpen) => source.isOpen
\* The resolve call has returned a decoder to its caller.
ReturnedDecoder ==
    /\ pc = "returned"
    /\ last.op = "CreateDecoderForInputSource"
    /\ last.retInt = Cur

\* C22: when every read of the flag in the call returned true, a decoder
\* the call returns is open and so is its input source; when every read
\* returned false, a decoder the call returns is closed and the call has
\* called neither InputSource::Open nor a plugin's _Open.
C22_ReturnedStateFollowsFlag ==
    ReturnedDecoder =>
        /\ FlagSetThroughout =>
              /\ decoders[Cur].mIsOpen
              /\ decoders[Cur].mInputSource = SRC
              /\ source.isOpen
        /\ FlagClearThroughout =>
              /\ ~decoders[Cur].mIsOpen
              /\ ~Called("InputSource::Open")
              /\ ~Called("_Open")

C22_Witness ==
    /\ ReturnedDecoder /\ FlagSetThroughout
    /\ ~last.preSrcOpen /\ source.isOpen
    /\ decoders[Cur].mIsOpen /\ decoders[Cur].phase = "ext"
    /\ Len(decoders) >= 2
\* C23: whatever stores to the flag happen while the call runs, a decoder
\* the call returns is either open, or closed over an input source the
\* call did not open itself; never a closed decoder over a source the call
\* opened.
C23_FlagReadOnce ==
    ReturnedDecoder =>
        \/ decoders[Cur].mIsOpen /\ source.isOpen
        \/ ~decoders[Cur].mIsOpen /\ ~Called("InputSource::Open")
\* C24: whenever the call returns a decoder, the caller's error is left
\* unset, also when the decoders of earlier candidates failed to open and
\* stored an error before a later one opened.
C24_SuccessLeavesErrorUnset ==
    ReturnedDecoder => error = NoError
====
